---- MODULE Spec2Model ----
(***************************************************************************)
(* Medical-diagnosis Bayesian network of BeluArhe/ProyectoIA: the three    *)
(* scripts redBayesianaPmgpy.py (pgmpy, exact variable elimination),       *)
(* reyBayesiana.py (pomegranate) and redBayesianaPyMC.py (PyMC sampling).  *)
(*                                                                         *)
(* Probabilities are kept exact: every table entry is an integer number of *)
(* tenths (0.7 is 7), an unnormalised factor holds integer weights and a   *)
(* normalised distribution is a list of numerators over one denominator,   *)
(* reduced by their greatest common divisor.  Floating-point rounding is   *)
(* not modelled.                                                           *)
(***************************************************************************)
EXTENDS Bags, FiniteSets, Integers, Sequences, TLC

VARIABLES
    script,          \* which of the three scripts runs
    modo,            \* "main": python script.py;  "import": its functions are called
    pc,              \* position of the program
    caso,            \* call site of the diagnosis inside main (1, 2, 3); 0 for a direct call
    modelo,          \* the network object built by the script
    sintomas,        \* the symptom dictionary handed to the diagnosis function
    evidencias,      \* the evidence dictionary built from it (sintomas_numericos in PyMC)
    enfermedades,    \* the variables still to be reported (valores_posibles in PyMC)
    indice,          \* position of the  for enf in enfermedades  loop
    diagnostico,     \* the result dictionary under construction
    diag,            \* what the diagnosis function returned to its caller
    estados_posibles,\* the label table main hands to mostrar_diagnostico_pgmpy
    consultas,       \* the infer.query calls issued by the diagnosis in progress
    trabajo,         \* the engine's working bag of factors of the query in progress
    porEliminar,     \* variables the query in progress has still to sum out
    orden,           \* the order in which the current (or last finished) query eliminated
    sesiones,        \* PyMC: interactive diagnoses done so far
    mensaje,         \* what the caller last showed the user for a diagnosis
    error            \* "" or the uncaught exception that ended the program

vars == <<script, modo, pc, caso, modelo, sintomas, evidencias, enfermedades, indice,
          diagnostico, diag, estados_posibles, consultas, trabajo, porEliminar, orden,
          sesiones, mensaje, error>>

Rango(s) == {s[i] : i \in DOMAIN s}

(***************************************************************************)
(* The network of crear_red_pgmpy.                                         *)
(***************************************************************************)
Nodos == <<"PG", "Gripe", "Neumonia", "Fiebre", "Tos", "Dolor_cabeza">>

NodosSet == Rango(Nodos)

Aristas ==
    { <<"PG", "Gripe">>, <<"PG", "Neumonia">>, <<"Gripe", "Fiebre">>,
      <<"Neumonia", "Fiebre">>, <<"Neumonia", "Tos">>, <<"Gripe", "Dolor_cabeza">> }

Estados(v) == IF v = "PG" THEN <<"Alta", "Media", "Baja">> ELSE <<"Sí", "No">>

EstadosSet(v) == Rango(Estados(v))

cpd_pg ==
    [variable |-> "PG", evidence |-> <<>>,
     values |-> << <<3>>, <<4>>, <<3>> >>]

cpd_gripe ==
    [variable |-> "Gripe", evidence |-> <<"PG">>,
     values |-> << <<6, 4, 2>>,
                   <<4, 6, 8>> >>]

cpd_neumonia ==
    [variable |-> "Neumonia", evidence |-> <<"PG">>,
     values |-> << <<7, 5, 3>>,
                   <<3, 5, 7>> >>]

\* cpd_fiebre with a certain fever when both diseases are present: a zero entry
cpd_fiebre_con_cero ==
    [variable |-> "Fiebre", evidence |-> <<"Gripe", "Neumonia">>,
     values |-> << <<10, 8, 7, 1>>,
                   <<0, 2, 3, 9>> >>]

cpd_fiebre ==
    [variable |-> "Fiebre", evidence |-> <<"Gripe", "Neumonia">>,
     values |-> << <<9, 8, 7, 1>>,
                   <<1, 2, 3, 9>> >>]

\* cpd_tos with one entry mistyped: the column of Neumonia = No sums to 1.1
cpd_tos_mal_sumada ==
    [variable |-> "Tos", evidence |-> <<"Neumonia">>,
     values |-> << <<8, 3>>,
                   <<2, 8>> >>]

cpd_tos ==
    [variable |-> "Tos", evidence |-> <<"Neumonia">>,
     values |-> << <<8, 2>>,
                   <<2, 8>> >>]

\* cpd_dolor with its two columns exchanged
cpd_dolor_columnas_cambiadas ==
    [variable |-> "Dolor_cabeza", evidence |-> <<"Gripe">>,
     values |-> << <<3, 7>>,
                   <<7, 3>> >>]

cpd_dolor ==
    [variable |-> "Dolor_cabeza", evidence |-> <<"Gripe">>,
     values |-> << <<7, 3>>,
                   <<3, 7>> >>]

\* modelo.add_cpds(cpd_pg, cpd_gripe, cpd_neumonia, cpd_fiebre, cpd_tos, cpd_dolor)
CpdsPgmpy == <<cpd_pg, cpd_gripe, cpd_neumonia, cpd_fiebre, cpd_tos, cpd_dolor>>

(***************************************************************************)
(* TabularCPD: values[i][j] is P(variable = state i | column j), the       *)
(* columns running over the evidence variables' states with the last       *)
(* evidence variable changing fastest.                                     *)
(***************************************************************************)
StateNo(v, s) == CHOOSE i \in DOMAIN Estados(v) : Estados(v)[i] = s

RECURSIVE ColumnaAux(_, _, _, _)
ColumnaAux(ev, a, i, acc) ==
    IF i > Len(ev) THEN acc + 1
    ELSE ColumnaAux(ev, a, i + 1, acc * Len(Estados(ev[i])) + (StateNo(ev[i], a[ev[i]]) - 1))

Columna(cpd, a) == ColumnaAux(cpd.evidence, a, 1, 0)

\* every assignment of valid states to the variables of S
RECURSIVE Asignaciones(_)
Asignaciones(S) ==
    IF S = {} THEN { <<>> }
    ELSE LET v == CHOOSE w \in S : TRUE
         IN  { [w \in S |-> IF w = v THEN s ELSE a[w]] :
                   a \in Asignaciones(S \ {v}), s \in EstadosSet(v) }

Restringir(a, S) == [w \in S |-> a[w]]

\* a CPD as a factor over {variable} \cup evidence
CpdFactor(cpd) ==
    LET sc == {cpd.variable} \cup Rango(cpd.evidence)
    IN  [scope |-> sc,
         val |-> [a \in Asignaciones(sc) |->
                      cpd.values[StateNo(cpd.variable, a[cpd.variable])][Columna(cpd, a)]]]

RECURSIVE SumaSeq(_)
SumaSeq(s) == IF s = <<>> THEN 0 ELSE Head(s) + SumaSeq(Tail(s))

\* what normalize() has for a factor whose weights sum to zero
Degenerado == [num |-> <<>>, den |-> 0]

(***************************************************************************)
(* Factor algebra and variable elimination of the inference engine         *)
(* (VariableElimination.query).  A factor is [scope, val]: val maps every  *)
(* assignment of the scope to a weight.                                    *)
(***************************************************************************)
FactorUno == [scope |-> {}, val |-> [a \in Asignaciones({}) |-> 1]]

Producto(f, g) ==
    LET sc == f.scope \cup g.scope
    IN  [scope |-> sc,
         val |-> [a \in Asignaciones(sc) |->
                      f.val[Restringir(a, f.scope)] * g.val[Restringir(a, g.scope)]]]

Extender(a, v, s) == [w \in (DOMAIN a) \cup {v} |-> IF w = v THEN s ELSE a[w]]

\* marginalize that keeps the slice of the first state instead of summing over all
MarginalizarSinSumar(f, v) ==
    LET sc == f.scope \ {v}
    IN  [scope |-> sc,
         val |-> [a \in Asignaciones(sc) |-> f.val[Extender(a, v, Estados(v)[1])]]]

Marginalizar(f, v) ==
    LET sc == f.scope \ {v}
    IN  [scope |-> sc,
         val |-> [a \in Asignaciones(sc) |->
                      SumaSeq([i \in DOMAIN Estados(v) |->
                                   f.val[Extender(a, v, Estados(v)[i])]])]]

\* the slice of f where every evidence variable of its scope has its observed state
ReducirPorEvidencia(f, ev) ==
    LET fijos == f.scope \cap DOMAIN ev
        sc == f.scope \ fijos
    IN  [scope |-> sc,
         val |-> [a \in Asignaciones(sc) |->
                      f.val[[w \in f.scope |-> IF w \in fijos THEN ev[w] ELSE a[w]]]]]

RECURSIVE BagDeSeq(_)
BagDeSeq(s) == IF s = <<>> THEN EmptyBag ELSE SetToBag({Head(s)}) (+) BagDeSeq(Tail(s))

RECURSIVE ProductoBag(_)
ProductoBag(B) ==
    IF BagToSet(B) = {} THEN FactorUno
    ELSE LET f == CHOOSE g \in BagToSet(B) : TRUE
         IN  Producto(f, ProductoBag(B (-) SetToBag({f})))

\* the factors of B whose scope contains v, with their multiplicities
Relevantes(B, v) == [f \in {g \in BagToSet(B) : v \in g.scope} |-> B[f]]

\* an elimination step that replaces the working set by the new factor, losing the
\* factors that do not contain v
EliminarOmiteResto(B, v) ==
    LET rel == Relevantes(B, v)
    IN  IF BagToSet(rel) = {} THEN B
        ELSE SetToBag({Marginalizar(ProductoBag(rel), v)})

\* one elimination step: multiply the factors containing v, sum v out, put the result
\* back beside the factors that do not contain v (nothing to do when none contains v)
Eliminar(B, v) ==
    LET rel == Relevantes(B, v)
    IN  IF BagToSet(rel) = {} THEN B
        ELSE (B (-) rel) (+) SetToBag({Marginalizar(ProductoBag(rel), v)})

\* steps 1-2 of a query: all CPD factors of the model, reduced by the evidence
FactoresReducidos(cpds, ev) ==
    BagDeSeq([i \in DOMAIN cpds |-> ReducirPorEvidencia(CpdFactor(cpds[i]), ev)])

RECURSIVE MCD(_, _)
MCD(a, b) == IF b = 0 THEN a ELSE MCD(b, a % b)

RECURSIVE MCDSeq(_)
MCDSeq(s) == IF s = <<>> THEN 0 ELSE MCD(Head(s), MCDSeq(Tail(s)))

\* weights in a variable's state order as a distribution: numerators over one denominator
Distribucion(pesos) ==
    LET total == SumaSeq(pesos)
        g == MCDSeq(pesos)
    IN  IF total = 0 THEN Degenerado
        ELSE [num |-> [i \in DOMAIN pesos |-> pesos[i] \div g], den |-> total \div g]

\* normalize(): the weights of a one-variable factor divided by their sum
Normalizar(f, v) ==
    Distribucion([i \in DOMAIN Estados(v) |-> f.val[[w \in {v} |-> Estados(v)[i]]]])

\* what a query has when the factors left do not have exactly the target as scope
FueraDeAmbito == [num |-> <<0>>, den |-> 0]

\* step 5 of a query: the product of what is left, whose scope must be exactly the
\* target, normalized
Finalizar(B, v) ==
    LET f == ProductoBag(B)
    IN  IF f.scope = {v} THEN Normalizar(f, v) ELSE FueraDeAmbito

RECURSIVE EliminarEnOrden(_, _)
EliminarEnOrden(B, o) ==
    IF o = <<>> THEN B ELSE EliminarEnOrden(Eliminar(B, Head(o)), Tail(o))

\* a whole query with the elimination order given
QueryEnOrden(cpds, v, ev, o) ==
    Finalizar(EliminarEnOrden(FactoresReducidos(cpds, ev), o), v)

\* the elements of sequence s that are in S, in the order of s
Filtrar(s, S) == SelectSeq(s, LAMBDA x : x \in S)

\* every evidence key is a variable of the network and its value one of its states
EvidenciaValida(ev) == \A w \in DOMAIN ev : w \in NodosSet /\ ev[w] \in EstadosSet(w)

(***************************************************************************)
(* The oracle: the conditional distribution by enumeration of the joint.   *)
(***************************************************************************)
RECURSIVE ProductoSeq(_)
ProductoSeq(s) == IF s = <<>> THEN 1 ELSE Head(s) * ProductoSeq(Tail(s))

\* weight of one full assignment: the product of every CPD entry it selects
PesoConjunto(cpds, a) ==
    ProductoSeq([i \in DOMAIN cpds |->
        cpds[i].values[StateNo(cpds[i].variable, a[cpds[i].variable])][Columna(cpds[i], a)]])

\* the sum of the joint weights of every completion of the partial assignment a over
\* the variables of the list vs
RECURSIVE SumaConjunta(_, _, _)
SumaConjunta(cpds, vs, a) ==
    IF vs = <<>> THEN PesoConjunto(cpds, a)
    ELSE SumaSeq([i \in DOMAIN Estados(Head(vs)) |->
                     SumaConjunta(cpds, Tail(vs), Extender(a, Head(vs), Estados(Head(vs))[i]))])

\* P(v | ev): for each state of v the joint summed over all the other variables that the
\* evidence leaves free, divided by the sum over the states of v
PosteriorPorEnumeracion(cpds, v, ev) ==
    LET fijos == Restringir(ev, (DOMAIN ev) \cap NodosSet)
        libres == Filtrar(Nodos, NodosSet \ ((DOMAIN ev) \cup {v}))
    IN  Distribucion([i \in DOMAIN Estados(v) |->
                         SumaConjunta(cpds, libres, Extender(fijos, v, Estados(v)[i]))])

(***************************************************************************)
(* Validation (check_model) and local normalization.                       *)
(***************************************************************************)
NumColumnas(cpd) == ProductoSeq([i \in DOMAIN cpd.evidence |-> Len(Estados(cpd.evidence[i]))])

\* every column of the table (one per parent assignment) sums to 1, that is to 10 tenths
CpdNormalizada(cpd) ==
    /\ Len(cpd.values) = Len(Estados(cpd.variable))
    /\ \A i \in DOMAIN cpd.values : Len(cpd.values[i]) = NumColumnas(cpd)
    /\ \A j \in 1..NumColumnas(cpd) :
           SumaSeq([i \in DOMAIN cpd.values |-> cpd.values[i][j]]) = 10

Padres(aristas, v) == {e[1] : e \in {x \in aristas : x[2] = v}}

RECURSIVE Descendientes(_, _)
Descendientes(aristas, S) ==
    LET hijos == {e[2] : e \in {x \in aristas : x[1] \in S}}
    IN  IF hijos \subseteq S THEN S ELSE Descendientes(aristas, S \cup hijos)

Aciclico(aristas) ==
    \A v \in NodosSet :
        v \notin Descendientes(aristas, {e[2] : e \in {x \in aristas : x[1] = v}})

\* check_model: the graph is acyclic, every variable has exactly one CPD, every CPD's
\* evidence is the variable's parent set, and every CPD is locally normalized
CheckModel(m) ==
    /\ Aciclico(m.aristas)
    /\ \A v \in NodosSet : Cardinality({i \in DOMAIN m.cpds : m.cpds[i].variable = v}) = 1
    /\ \A i \in DOMAIN m.cpds :
           /\ Rango(m.cpds[i].evidence) = Padres(m.aristas, m.cpds[i].variable)
           /\ CpdNormalizada(m.cpds[i])

(***************************************************************************)
(* The network of crear_red_bayesiana (pomegranate): each table is a list  *)
(* of rows  parent states..., child state, probability.                    *)
(***************************************************************************)
pg ==
    [variable |-> "PG", padres |-> <<>>,
     filas |-> << <<"Alta", 3>>, <<"Media", 4>>, <<"Baja", 3>> >>]

gripe ==
    [variable |-> "Gripe", padres |-> <<"PG">>,
     filas |-> << <<"Alta", "Sí", 6>>, <<"Alta", "No", 4>>,
                  <<"Media", "Sí", 4>>, <<"Media", "No", 6>>,
                  <<"Baja", "Sí", 2>>, <<"Baja", "No", 8>> >>]

neumonia ==
    [variable |-> "Neumonia", padres |-> <<"PG">>,
     filas |-> << <<"Alta", "Sí", 7>>, <<"Alta", "No", 3>>,
                  <<"Media", "Sí", 5>>, <<"Media", "No", 5>>,
                  <<"Baja", "Sí", 3>>, <<"Baja", "No", 7>> >>]

fiebre ==
    [variable |-> "Fiebre", padres |-> <<"Gripe", "Neumonia">>,
     filas |-> << <<"Sí", "Sí", "Sí", 9>>, <<"Sí", "Sí", "No", 1>>,
                  <<"Sí", "No", "Sí", 8>>, <<"Sí", "No", "No", 2>>,
                  <<"No", "Sí", "Sí", 7>>, <<"No", "Sí", "No", 3>>,
                  <<"No", "No", "Sí", 1>>, <<"No", "No", "No", 9>> >>]

tos ==
    [variable |-> "Tos", padres |-> <<"Neumonia">>,
     filas |-> << <<"Sí", "Sí", 8>>, <<"Sí", "No", 2>>,
                  <<"No", "Sí", 3>>, <<"No", "No", 7>> >>]

dolor_cabeza ==
    [variable |-> "Dolor_cabeza", padres |-> <<"Gripe">>,
     filas |-> << <<"Sí", "Sí", 7>>, <<"Sí", "No", 3>>,
                  <<"No", "Sí", 2>>, <<"No", "No", 8>> >>]

\* modelo.add_states(nodo_pg, nodo_gripe, nodo_neumonia, nodo_fiebre, nodo_tos, nodo_dolor)
TablasPomegranate == <<pg, gripe, neumonia, fiebre, tos, dolor_cabeza>>

\* the rows of table t for the parent assignment a (a function on the parents)
FilasDe(t, a) ==
    SelectSeq(t.filas, LAMBDA f : \A i \in DOMAIN t.padres : f[i] = a[t.padres[i]])

\* for every parent assignment the rows name each child state once and sum to 1
TablaNormalizada(t) ==
    \A a \in Asignaciones(Rango(t.padres)) :
        LET fs == FilasDe(t, a)
            n == Len(t.padres)
        IN  /\ {fs[i][n + 1] : i \in DOMAIN fs} = EstadosSet(t.variable)
            /\ Len(fs) = Len(Estados(t.variable))
            /\ SumaSeq([i \in DOMAIN fs |-> fs[i][n + 2]]) = 10

(***************************************************************************)
(* Inputs.                                                                 *)
(***************************************************************************)
\* most entries with a label that is no state of their variable in a dictionary passed
\* directly to a diagnosis function
MaxInvalidos == 1

\* most interactive diagnoses of one run of the PyMC script
MaxSesiones == 2

SintomasPreguntados == <<"Fiebre", "Tos", "Dolor_cabeza">>

\* a key that names no variable of the network
ClavesDesconocidas == {"Edad"}

ValoresDeEntrada(k) == IF k \in NodosSet THEN EstadosSet(k) \cup {"Quizas"} ELSE {"Sí"}

RECURSIVE Diccionarios(_)
Diccionarios(K) ==
    IF K = {} THEN { <<>> }
    ELSE LET k == CHOOSE x \in K : TRUE
             R == Diccionarios(K \ {k})
         IN  R \cup { Extender(d, k, x) : d \in R, x \in ValoresDeEntrada(k) }

NumInvalidos(d) == Cardinality({k \in (DOMAIN d) \cap NodosSet : d[k] \notin EstadosSet(k)})

\* the dictionaries a caller of the diagnosis functions passes
DiccionariosDirectos ==
    {d \in Diccionarios(NodosSet \cup ClavesDesconocidas) : NumInvalidos(d) <= MaxInvalidos}

\* what the user types at a prompt
Entradas == {"", "sí", "Sí", "NO", "no ", "si"}

EntradasPyMC == {"sí", "si", "s", "n", "NO", "tal vez"}

Strip(t) == IF t = "no " THEN "no" ELSE t

Capitalize(t) ==
    CASE t = "sí" -> "Sí"
      [] t = "no" -> "No"
      [] t = "NO" -> "No"
      [] t = "si" -> "Si"
      [] OTHER -> t

Lower(t) ==
    CASE t = "Sí" -> "sí"
      [] t = "No" -> "no"
      [] t = "NO" -> "no"
      [] t = "S" -> "s"
      [] t = "Alta" -> "alta"
      [] t = "Media" -> "media"
      [] t = "Baja" -> "baja"
      [] t = "Quizas" -> "quizas"
      [] OTHER -> t

\* sintomas of the interactive mode of the pgmpy and pomegranate scripts: the answers
\* that are 'Sí' or 'No' once stripped and capitalized
SintomasLeidos(r) ==
    [k \in {x \in DOMAIN r : Capitalize(Strip(r[x])) \in {"Sí", "No"}} |->
        Capitalize(Strip(r[k]))]

(***************************************************************************)
(* Values of the program.                                                  *)
(***************************************************************************)
SinModelo == [cpds |-> <<>>, aristas |-> {}, validado |-> FALSE]

Pendiente == [tipo |-> "pendiente"]

DevuelveNone == [tipo |-> "None"]

Devuelve(d) == [tipo |-> "dict", valor |-> d]

Caso1Sintomas == [Fiebre |-> "Sí", Tos |-> "Sí", Dolor_cabeza |-> "No"]

Caso2SintomasPgmpy == [Tos |-> "Sí", Gripe |-> "Sí"]

Caso2SintomasPomegranate == [Fiebre |-> "No", Tos |-> "No", Dolor_cabeza |-> "Sí"]

EstadosCaso1 ==
    [PG |-> <<"Alta", "Media", "Baja">>, Gripe |-> <<"Sí", "No">>, Neumonia |-> <<"Sí", "No">>]

EstadosCaso2 ==
    [PG |-> <<"Alta", "Media", "Baja">>, Neumonia |-> <<"Sí", "No">>,
     Fiebre |-> <<"Sí", "No">>, Dolor_cabeza |-> <<"Sí", "No">>]

EstadosInteractivo ==
    [PG |-> <<"Alta", "Media", "Baja">>, Gripe |-> <<"Sí", "No">>, Neumonia |-> <<"Sí", "No">>]

(***************************************************************************)
(* diagnosticar_pgmpy.                                                     *)
(***************************************************************************)
NombresAceptados == {"Fiebre", "Tos", "Dolor_cabeza", "Gripe", "Neumonia", "PG"}

\* evidencias: the entries of sintomas whose name is in the list
EvidenciasPgmpy(sint) == Restringir(sint, (DOMAIN sint) \cap NombresAceptados)

\* the list as it would be without enfermedades.remove(nombre)
EnfermedadesSinQuitar(sint) ==
    <<"PG", "Gripe", "Neumonia", "Tos", "Fiebre", "Dolor_cabeza">>

\* enfermedades: the list less every name put into evidencias
EnfermedadesPgmpy(sint) ==
    Filtrar(<<"PG", "Gripe", "Neumonia", "Tos", "Fiebre", "Dolor_cabeza">>,
            NodosSet \ ((DOMAIN sint) \cap NombresAceptados))

\* infer.query(variables=[enf], evidence=evidencias)
Llamada(enf, ev) == [variables |-> {enf}, evidence |-> ev]

(***************************************************************************)
(* Initial state: one of the scripts is run, or imported and its functions *)
(* called (each ends with  if __name__ == "__main__": main()).             *)
(***************************************************************************)
Init ==
    /\ script \in {"pgmpy", "pomegranate", "pymc"}
    /\ modo \in {"main", "import"}
    /\ pc = "inicio"
    /\ caso = 0
    /\ modelo = SinModelo
    /\ sintomas = <<>>
    /\ evidencias = <<>>
    /\ enfermedades = <<>>
    /\ indice = 0
    /\ diagnostico = <<>>
    /\ diag = Pendiente
    /\ estados_posibles = <<>>
    /\ consultas = <<>>
    /\ trabajo = EmptyBag
    /\ porEliminar = {}
    /\ orden = <<>>
    /\ sesiones = 0
    /\ mensaje = ""
    /\ error = ""

\* the variables of a diagnosis in progress
motor == <<evidencias, enfermedades, indice, diagnostico, consultas, trabajo, porEliminar, orden>>

\* where main goes on after showing the diagnosis of call site c
Siguiente(c) ==
    CASE c = 1 -> "caso2"
      [] c = 2 -> "interactivo"
      [] OTHER -> "fin"

(***************************************************************************)
(* redBayesianaPmgpy.py                                                    *)
(***************************************************************************)
\* crear_red_pgmpy, up to add_cpds
ConstruirRedPgmpy ==
    /\ script = "pgmpy" /\ pc = "inicio"
    /\ modelo' = [cpds |-> CpdsPgmpy, aristas |-> Aristas, validado |-> FALSE]
    /\ pc' = "validar"
    /\ UNCHANGED <<script, modo, caso, sintomas, diag, estados_posibles, sesiones,
                   mensaje, error>>
    /\ UNCHANGED motor

\* the same with the validation line left out: the model is returned unchecked
ValidarRedOmitida ==
    /\ script = "pgmpy" /\ pc = "validar"
    /\ pc' = IF modo = "main" THEN "caso1" ELSE "llamada"
    /\ UNCHANGED <<script, modo, caso, modelo, sintomas, diag, estados_posibles, sesiones,
                   mensaje, error>>
    /\ UNCHANGED motor

\* assert modelo.check_model(); return modelo
ValidarRed ==
    /\ script = "pgmpy" /\ pc = "validar"
    /\ IF CheckModel(modelo)
       THEN /\ modelo' = [modelo EXCEPT !.validado = TRUE]
            /\ pc' = IF modo = "main" THEN "caso1" ELSE "llamada"
            /\ error' = error
       ELSE /\ modelo' = SinModelo
            /\ pc' = "crash"
            /\ error' = "ValueError"
    /\ UNCHANGED <<script, modo, caso, sintomas, diag, estados_posibles, sesiones, mensaje>>
    /\ UNCHANGED motor

\* main, case 1 (the plot of step 2 changes nothing)
Caso1Pgmpy ==
    /\ script = "pgmpy" /\ pc = "caso1"
    /\ estados_posibles' = EstadosCaso1
    /\ sintomas' = Caso1Sintomas
    /\ caso' = 1
    /\ diag' = Pendiente
    /\ pc' = "diagnosticar"
    /\ UNCHANGED <<script, modo, modelo, sesiones, mensaje, error>>
    /\ UNCHANGED motor

Caso2Pgmpy ==
    /\ script = "pgmpy" /\ pc = "caso2"
    /\ estados_posibles' = EstadosCaso2
    /\ sintomas' = Caso2SintomasPgmpy
    /\ caso' = 2
    /\ diag' = Pendiente
    /\ pc' = "diagnosticar"
    /\ UNCHANGED <<script, modo, modelo, sesiones, mensaje, error>>
    /\ UNCHANGED motor

\* main, interactive mode: three prompts, then the diagnosis if anything valid was typed
InteractivoPgmpy ==
    /\ script = "pgmpy" /\ pc = "interactivo"
    /\ \E r \in [Rango(SintomasPreguntados) -> Entradas] :
        /\ estados_posibles' = EstadosInteractivo
        /\ sintomas' = SintomasLeidos(r)
        /\ diag' = Pendiente
        /\ IF DOMAIN SintomasLeidos(r) # {}
           THEN /\ caso' = 3
                /\ pc' = "diagnosticar"
                /\ mensaje' = mensaje
           ELSE /\ caso' = caso
                /\ pc' = "fin"
                /\ mensaje' = "No se ingresaron síntomas válidos"
    /\ UNCHANGED <<script, modo, modelo, sesiones, error>>
    /\ UNCHANGED motor

\* a caller that imported the script passes any dictionary to diagnosticar_pgmpy
LlamadaDirectaPgmpy ==
    /\ script = "pgmpy" /\ pc = "llamada"
    /\ \E d \in DiccionariosDirectos : sintomas' = d
    /\ caso' = 0
    /\ diag' = Pendiente
    /\ pc' = "diagnosticar"
    /\ UNCHANGED <<script, modo, modelo, estados_posibles, sesiones, mensaje, error>>
    /\ UNCHANGED motor

\* diagnosticar_pgmpy, up to the creation of the inference engine
DiagnosticarPgmpy ==
    /\ script = "pgmpy" /\ pc = "diagnosticar"
    /\ evidencias' = EvidenciasPgmpy(sintomas)
    /\ enfermedades' = EnfermedadesPgmpy(sintomas)
    /\ diagnostico' = <<>>
    /\ indice' = 1
    /\ consultas' = <<>>
    /\ orden' = <<>>
    /\ pc' = "bucle"
    /\ UNCHANGED <<script, modo, caso, modelo, sintomas, diag, estados_posibles, trabajo,
                   porEliminar, sesiones, mensaje, error>>

\* where a returned diagnosis goes: main shows it, a direct caller keeps it
TrasDiagnostico == IF modo = "main" THEN "mostrar" ELSE "fin"

\* for enf in enfermedades: infer.query(...) is called.  The call raises when the
\* evidence names a label that is no state of its variable, or when the library fails;
\* the except clause then prints the error and returns None
ConsultaInicio ==
    /\ script = "pgmpy" /\ pc = "bucle"
    /\ indice <= Len(enfermedades)
    /\ consultas' = Append(consultas, Llamada(enfermedades[indice], evidencias))
    /\ orden' = <<>>
    /\ \E falla \in BOOLEAN :
        IF falla \/ ~EvidenciaValida(evidencias)
        THEN /\ diag' = DevuelveNone
             /\ pc' = TrasDiagnostico
             /\ UNCHANGED <<trabajo, porEliminar>>
        ELSE /\ trabajo' = FactoresReducidos(modelo.cpds, evidencias)
             /\ porEliminar' = NodosSet \ ({enfermedades[indice]} \cup DOMAIN evidencias)
             /\ pc' = "eliminando"
             /\ diag' = diag
    /\ UNCHANGED <<script, modo, caso, modelo, sintomas, evidencias, enfermedades, indice,
                   diagnostico, estados_posibles, sesiones, mensaje, error>>

\* the engine sums out one more variable; which one first is the planner's choice
EliminarVariable ==
    /\ script = "pgmpy" /\ pc = "eliminando"
    /\ \E v \in porEliminar :
        /\ trabajo' = Eliminar(trabajo, v)
        /\ porEliminar' = porEliminar \ {v}
        /\ orden' = Append(orden, v)
    /\ UNCHANGED <<script, modo, pc, caso, modelo, sintomas, evidencias, enfermedades,
                   indice, diagnostico, diag, estados_posibles, consultas, sesiones,
                   mensaje, error>>

\* the query returns; diagnostico[enf] = resultado.values
ConsultaFin ==
    /\ script = "pgmpy" /\ pc = "eliminando"
    /\ porEliminar = {}
    /\ LET r == Finalizar(trabajo, enfermedades[indice])
       IN  IF r.den = 0
           THEN /\ diag' = DevuelveNone
                /\ pc' = TrasDiagnostico
                /\ UNCHANGED <<diagnostico, indice>>
           ELSE /\ diagnostico' = Extender(diagnostico, enfermedades[indice], r)
                /\ indice' = indice + 1
                /\ pc' = "bucle"
                /\ diag' = diag
    /\ trabajo' = EmptyBag
    /\ UNCHANGED <<script, modo, caso, modelo, sintomas, evidencias, enfermedades,
                   estados_posibles, consultas, porEliminar, orden, sesiones, mensaje, error>>

\* return diagnostico
RetornarDiagnostico ==
    /\ script = "pgmpy" /\ pc = "bucle"
    /\ indice > Len(enfermedades)
    /\ diag' = Devuelve(diagnostico)
    /\ pc' = TrasDiagnostico
    /\ orden' = <<>>
    /\ UNCHANGED <<script, modo, caso, modelo, sintomas, evidencias, enfermedades, indice,
                   diagnostico, estados_posibles, consultas, trabajo, porEliminar,
                   sesiones, mensaje, error>>

\* mostrar_diagnostico_pgmpy(diag, estados_posibles): diagnostico.items() of None, or
\* estados_posibles[enfermedad] of a variable the table lacks, ends the program
MostrarPgmpy ==
    /\ script = "pgmpy" /\ pc = "mostrar"
    /\ IF diag.tipo = "None"
       THEN /\ error' = "AttributeError"
            /\ pc' = "crash"
            /\ mensaje' = mensaje
       ELSE IF ~((DOMAIN diag.valor) \subseteq DOMAIN estados_posibles)
       THEN /\ error' = "KeyError"
            /\ pc' = "crash"
            /\ mensaje' = "RESULTADOS DEL DIAGNÓSTICO"
       ELSE /\ error' = error
            /\ pc' = Siguiente(caso)
            /\ mensaje' = "RESULTADOS DEL DIAGNÓSTICO"
    /\ UNCHANGED <<script, modo, caso, modelo, sintomas, diag, estados_posibles, sesiones>>
    /\ UNCHANGED motor

NextPgmpy ==
    \/ ConstruirRedPgmpy
    \/ ValidarRed
    \/ Caso1Pgmpy
    \/ Caso2Pgmpy
    \/ InteractivoPgmpy
    \/ LlamadaDirectaPgmpy
    \/ DiagnosticarPgmpy
    \/ ConsultaInicio
    \/ EliminarVariable
    \/ ConsultaFin
    \/ RetornarDiagnostico
    \/ MostrarPgmpy

(***************************************************************************)
(* reyBayesiana.py                                                         *)
(***************************************************************************)
\* crear_red_bayesiana: tables, nodes, edges, bake
ConstruirRedPomegranate ==
    /\ script = "pomegranate" /\ pc = "inicio"
    /\ modelo' = [cpds |-> TablasPomegranate, aristas |-> Aristas, validado |-> FALSE]
    /\ pc' = IF modo = "main" THEN "caso1" ELSE "llamada"
    /\ UNCHANGED <<script, modo, caso, sintomas, diag, estados_posibles, sesiones,
                   mensaje, error>>
    /\ UNCHANGED motor

Caso1Pomegranate ==
    /\ script = "pomegranate" /\ pc = "caso1"
    /\ sintomas' = Caso1Sintomas
    /\ caso' = 1
    /\ diag' = Pendiente
    /\ pc' = "diagnosticar"
    /\ UNCHANGED <<script, modo, modelo, estados_posibles, sesiones, mensaje, error>>
    /\ UNCHANGED motor

Caso2Pomegranate ==
    /\ script = "pomegranate" /\ pc = "caso2"
    /\ sintomas' = Caso2SintomasPomegranate
    /\ caso' = 2
    /\ diag' = Pendiente
    /\ pc' = "diagnosticar"
    /\ UNCHANGED <<script, modo, modelo, estados_posibles, sesiones, mensaje, error>>
    /\ UNCHANGED motor

InteractivoPomegranate ==
    /\ script = "pomegranate" /\ pc = "interactivo"
    /\ \E r \in [Rango(SintomasPreguntados) -> Entradas] :
        /\ sintomas' = SintomasLeidos(r)
        /\ diag' = Pendiente
        /\ IF DOMAIN SintomasLeidos(r) # {}
           THEN /\ caso' = 3
                /\ pc' = "diagnosticar"
                /\ mensaje' = mensaje
           ELSE /\ caso' = caso
                /\ pc' = "fin"
                /\ mensaje' = "No se ingresaron síntomas válidos"
    /\ UNCHANGED <<script, modo, modelo, estados_posibles, sesiones, error>>
    /\ UNCHANGED motor

LlamadaDirectaPomegranate ==
    /\ script = "pomegranate" /\ pc = "llamada"
    /\ \E d \in DiccionariosDirectos : sintomas' = d
    /\ caso' = 0
    /\ diag' = Pendiente
    /\ pc' = "diagnosticar"
    /\ UNCHANGED <<script, modo, modelo, estados_posibles, sesiones, mensaje, error>>
    /\ UNCHANGED motor

\* evidencias: only the entries named Fiebre, Tos or Dolor_cabeza
EvidenciasPomegranate(sint) ==
    Restringir(sint, (DOMAIN sint) \cap {"Fiebre", "Tos", "Dolor_cabeza"})

\* diagnosticar: predict_proba(evidencias), then the entries of PG, Gripe and Neumonia.
\* Each reported distribution is kept as the list of its state labels (the numbers of
\* the library's approximate inference are not modelled)
DiagnosticarPomegranate ==
    /\ script = "pomegranate" /\ pc = "diagnosticar"
    /\ evidencias' = EvidenciasPomegranate(sintomas)
    /\ \E falla \in BOOLEAN :
        IF falla \/ ~EvidenciaValida(EvidenciasPomegranate(sintomas))
        THEN /\ diag' = DevuelveNone
             /\ diagnostico' = <<>>
        ELSE /\ diagnostico' = [v \in {"PG", "Gripe", "Neumonia"} |-> Estados(v)]
             /\ diag' = Devuelve(diagnostico')
    /\ pc' = TrasDiagnostico
    /\ UNCHANGED <<script, modo, caso, modelo, sintomas, enfermedades, indice,
                   estados_posibles, consultas, trabajo, porEliminar, orden, sesiones,
                   mensaje, error>>

\* mostrar_diagnostico(diag): diagnostico.items() of None ends the program
MostrarPomegranate ==
    /\ script = "pomegranate" /\ pc = "mostrar"
    /\ IF diag.tipo = "None"
       THEN /\ error' = "AttributeError"
            /\ pc' = "crash"
            /\ mensaje' = mensaje
       ELSE /\ error' = error
            /\ pc' = Siguiente(caso)
            /\ mensaje' = "RESULTADOS DEL DIAGNÓSTICO"
    /\ UNCHANGED <<script, modo, caso, modelo, sintomas, diag, estados_posibles, sesiones>>
    /\ UNCHANGED motor

NextPomegranate ==
    \/ ConstruirRedPomegranate
    \/ Caso1Pomegranate
    \/ Caso2Pomegranate
    \/ InteractivoPomegranate
    \/ LlamadaDirectaPomegranate
    \/ DiagnosticarPomegranate
    \/ MostrarPomegranate

(***************************************************************************)
(* redBayesianaPyMC.py                                                     *)
(***************************************************************************)
\* main up to the demonstration cases: the banner and visualizar_red
InicioPyMC ==
    /\ script = "pymc" /\ pc = "inicio"
    /\ pc' = IF modo = "main" THEN "caso1" ELSE "llamada"
    /\ UNCHANGED <<script, modo, caso, modelo, sintomas, diag, estados_posibles, sesiones,
                   mensaje, error>>
    /\ UNCHANGED motor

Caso1PyMC ==
    /\ script = "pymc" /\ pc = "caso1"
    /\ sintomas' = Caso1Sintomas
    /\ caso' = 1
    /\ diag' = Pendiente
    /\ pc' = "diagnosticar"
    /\ UNCHANGED <<script, modo, modelo, estados_posibles, sesiones, mensaje, error>>
    /\ UNCHANGED motor

Caso2PyMC ==
    /\ script = "pymc" /\ pc = "caso2"
    /\ sintomas' = Caso2SintomasPgmpy
    /\ caso' = 2
    /\ diag' = Pendiente
    /\ pc' = "diagnosticar"
    /\ UNCHANGED <<script, modo, modelo, estados_posibles, sesiones, mensaje, error>>
    /\ UNCHANGED motor

RespuestasSi == {"sí", "si", "s"}

RespuestasNo == {"no", "n"}

\* main, interactive mode: each prompt is repeated until the answer is a yes or a no
InteractivoPyMC ==
    /\ script = "pymc" /\ pc = "interactivo"
    /\ \E r \in [Rango(SintomasPreguntados) -> EntradasPyMC] :
        /\ \A k \in DOMAIN r : Lower(Strip(r[k])) \in {"sí", "si", "s", "n", "no"}
        /\ sintomas' = [k \in DOMAIN r |->
                           IF Lower(Strip(r[k])) \in RespuestasSi THEN "Sí" ELSE "No"]
    /\ caso' = 3
    /\ diag' = Pendiente
    /\ pc' = "diagnosticar"
    /\ UNCHANGED <<script, modo, modelo, estados_posibles, sesiones, mensaje, error>>
    /\ UNCHANGED motor

LlamadaDirectaPyMC ==
    /\ script = "pymc" /\ pc = "llamada"
    /\ \E d \in DiccionariosDirectos : sintomas' = d
    /\ caso' = 0
    /\ diag' = Pendiente
    /\ pc' = "diagnosticar"
    /\ UNCHANGED <<script, modo, modelo, estados_posibles, sesiones, mensaje, error>>
    /\ UNCHANGED motor

\* sintomas_numericos: every entry whose value reads as a yes (1) or a no (0)
SintomasNumericos(sint) ==
    [k \in {x \in DOMAIN sint : Lower(sint[x]) \in RespuestasSi \cup RespuestasNo} |->
        IF Lower(sint[k]) \in RespuestasSi THEN 1 ELSE 0]

\* valores_posibles after the pops: the variables diagnosticar reports, with their labels
ValoresPosibles(v) == IF v = "PG" THEN <<"Alta", "Media", "Baja">> ELSE <<"No", "Sí">>

VariablesInformadas(sint) == Filtrar(Nodos, NodosSet \ DOMAIN SintomasNumericos(sint))

\* crear_modelo_bayesiano: observed= is given to Fiebre, Tos and Dolor_cabeza only
Observados(sn) == Restringir(sn, (DOMAIN sn) \cap {"Fiebre", "Tos", "Dolor_cabeza"})

\* the number PyMC has for a state: its index in valores_posibles (Alta 0, Media 1,
\* Baja 2; No 0, Sí 1)
Codigo(v, s) == (CHOOSE i \in DOMAIN ValoresPosibles(v) : ValoresPosibles(v)[i] = s) - 1

\* crear_modelo_bayesiano: the parameters of the six distributions, in tenths
pg_probs == <<3, 4, 3>>

p_gripe(pgc) == IF pgc = 0 THEN 6 ELSE IF pgc = 1 THEN 4 ELSE 2

p_neumonia(pgc) == IF pgc = 0 THEN 7 ELSE IF pgc = 1 THEN 5 ELSE 3

p_fiebre(g, n) ==
    IF g = 1 /\ n = 1 THEN 9
    ELSE IF g = 1 /\ n = 0 THEN 8
    ELSE IF g = 0 /\ n = 1 THEN 7
    ELSE 1

p_tos(n) == IF n = 1 THEN 8 ELSE 3

p_dolor(g) == IF g = 1 THEN 7 ELSE 2

\* pm.Bernoulli(p): 1 with probability p, 0 with the rest
Bernoulli(p, c) == IF c = 1 THEN p ELSE 10 - p

\* P(v = s | a) in the PyMC model, a giving the labels of v's parents
ProbPyMC(v, a, s) ==
    CASE v = "PG" -> pg_probs[Codigo("PG", s) + 1]
      [] v = "Gripe" -> Bernoulli(p_gripe(Codigo("PG", a["PG"])), Codigo(v, s))
      [] v = "Neumonia" -> Bernoulli(p_neumonia(Codigo("PG", a["PG"])), Codigo(v, s))
      [] v = "Fiebre" ->
             Bernoulli(p_fiebre(Codigo("Gripe", a["Gripe"]), Codigo("Neumonia", a["Neumonia"])),
                       Codigo(v, s))
      [] v = "Tos" -> Bernoulli(p_tos(Codigo("Neumonia", a["Neumonia"])), Codigo(v, s))
      [] v = "Dolor_cabeza" -> Bernoulli(p_dolor(Codigo("Gripe", a["Gripe"])), Codigo(v, s))

\* P(variable = s | a) in a pomegranate table: the weight of the row of a and s
ProbTabla(t, a, s) ==
    LET fs == FilasDe(t, a)
        n == Len(t.padres)
        i == CHOOSE k \in DOMAIN fs : fs[k][n + 1] = s
    IN  fs[i][n + 2]

\* a conditional distribution laid out as a TabularCPD: one row per state of v, one
\* column per assignment of the parents; f[a][s] is P(v = s | a)
CpdDesde(v, padres, f) ==
    [variable |-> v, evidence |-> padres,
     values |-> [i \in DOMAIN Estados(v) |->
                    [j \in 1..ProductoSeq([k \in DOMAIN padres |-> Len(Estados(padres[k]))]) |->
                        LET a == CHOOSE x \in Asignaciones(Rango(padres)) :
                                     ColumnaAux(padres, x, 1, 0) = j
                        IN  f[a][Estados(v)[i]]]]]

TablaComoCpd(t) ==
    CpdDesde(t.variable, t.padres,
             [a \in Asignaciones(Rango(t.padres)) |->
                 [s \in EstadosSet(t.variable) |-> ProbTabla(t, a, s)]])

\* one distribution of crear_modelo_bayesiano with the parents its switch expression reads
CpdPyMC(v, padres) ==
    CpdDesde(v, padres,
             [a \in Asignaciones(Rango(padres)) |->
                 [s \in EstadosSet(v) |-> ProbPyMC(v, a, s)]])

CpdsPyMC ==
    << CpdPyMC("PG", <<>>),
       CpdPyMC("Gripe", <<"PG">>),
       CpdPyMC("Neumonia", <<"PG">>),
       CpdPyMC("Fiebre", <<"Gripe", "Neumonia">>),
       CpdPyMC("Tos", <<"Neumonia">>),
       CpdPyMC("Dolor_cabeza", <<"Gripe">>) >>

\* the network a script's model encodes, in the layout of crear_red_pgmpy
RedDe(m) ==
    IF script = "pomegranate" THEN [i \in DOMAIN m.cpds |-> TablaComoCpd(m.cpds[i])]
    ELSE m.cpds

\* the parent-to-child edges the distributions of a network read
AristasDe(cpds) ==
    UNION {{<<cpds[i].evidence[k], cpds[i].variable>> : k \in DOMAIN cpds[i].evidence} :
               i \in DOMAIN cpds}

\* diagnosticar: the model is built with the observations and sampled; the sample
\* frequencies are kept as the list of labels each reported variable has.  pm.sample
\* may raise, and then (None, None) is returned
DiagnosticarPyMC ==
    /\ script = "pymc" /\ pc = "diagnosticar"
    /\ evidencias' = SintomasNumericos(sintomas)
    /\ enfermedades' = VariablesInformadas(sintomas)
    /\ modelo' = [cpds |-> CpdsPyMC, aristas |-> AristasDe(CpdsPyMC), validado |-> FALSE,
                  observados |-> Observados(SintomasNumericos(sintomas))]
    /\ \E falla \in BOOLEAN :
        IF falla
        THEN /\ diag' = DevuelveNone
             /\ diagnostico' = <<>>
        ELSE /\ diagnostico' = [v \in Rango(VariablesInformadas(sintomas)) |->
                                   ValoresPosibles(v)]
             /\ diag' = Devuelve(diagnostico')
    /\ pc' = TrasDiagnostico
    /\ UNCHANGED <<script, modo, caso, sintomas, indice, estados_posibles, consultas,
                   trabajo, porEliminar, orden, sesiones, mensaje, error>>

\* the caller of a demonstration case:  if diag: mostrar_diagnostico(diag)  else the
\* message; an empty dictionary counts as no diagnosis
MostrarCasoPyMC ==
    /\ script = "pymc" /\ pc = "mostrar" /\ caso \in {1, 2}
    /\ mensaje' = IF diag.tipo = "dict" /\ DOMAIN diag.valor # {}
                  THEN "RESULTADOS DEL DIAGNÓSTICO"
                  ELSE "No se pudo realizar el diagnóstico"
    /\ pc' = Siguiente(caso)
    /\ UNCHANGED <<script, modo, caso, modelo, sintomas, diag, estados_posibles, sesiones,
                   error>>
    /\ UNCHANGED motor

\* the interactive loop: mostrar_diagnostico(diag) tests for None itself; then the user
\* is asked for another diagnosis
MostrarInteractivoPyMC ==
    /\ script = "pymc" /\ pc = "mostrar" /\ caso = 3
    /\ mensaje' = IF diag.tipo = "None"
                  THEN "No se pudo realizar el diagnóstico"
                  ELSE "RESULTADOS DEL DIAGNÓSTICO"
    /\ sesiones' = sesiones + 1
    /\ \E otra \in {"s", "S", "n", ""} :
        IF Lower(otra) = "s"
        THEN sesiones + 1 < MaxSesiones /\ pc' = "interactivo"
        ELSE pc' = "fin"
    /\ UNCHANGED <<script, modo, caso, modelo, sintomas, diag, estados_posibles, error>>
    /\ UNCHANGED motor

NextPyMC ==
    \/ InicioPyMC
    \/ Caso1PyMC
    \/ Caso2PyMC
    \/ InteractivoPyMC
    \/ LlamadaDirectaPyMC
    \/ DiagnosticarPyMC
    \/ MostrarCasoPyMC
    \/ MostrarInteractivoPyMC

Next == NextPgmpy \/ NextPomegranate \/ NextPyMC

Spec == Init /\ [][Next]_vars

(***************************************************************************)
(* Properties.                                                             *)
(***************************************************************************)
\* main of the pgmpy script has the diagnosis of case 1 in hand
Caso1Devuelto ==
    /\ script = "pgmpy" /\ modo = "main" /\ caso = 1
    /\ pc = "mostrar" /\ diag.tipo = "dict"

\* the prior of Gripe, by enumeration of the joint of the network
PriorGripe == PosteriorPorEnumeracion(CpdsPgmpy, "Gripe", <<>>)

\* C1 as stated: with evidence Fiebre = Sí, Tos = Sí, Dolor_cabeza = No the query of Gripe
\* returns two probabilities that sum to 1, and P(Sí) is strictly greater than the prior
\* P(Gripe = Sí)
C1_PosteriorMayorQuePrior ==
    Caso1Devuelto =>
        LET d == diag.valor["Gripe"]
        IN  /\ Len(d.num) = 2
            /\ SumaSeq(d.num) = d.den
            /\ d.num[1] * PriorGripe.den > PriorGripe.num[1] * d.den

\* C1 amended: the query returns two probabilities that sum to 1; P(Sí) is 2368/7065
\* (about 0.335), strictly smaller than the prior P(Gripe = Sí), which is 2/5
C1_PosteriorMenorQuePrior ==
    Caso1Devuelto =>
        LET d == diag.valor["Gripe"]
        IN  /\ Len(d.num) = 2
            /\ SumaSeq(d.num) = d.den
            /\ d = [num |-> <<2368, 4697>>, den |-> 7065]
            /\ PriorGripe = [num |-> <<2, 3>>, den |-> 5]
            /\ d.num[1] * PriorGripe.den < PriorGripe.num[1] * d.den

C1_Witness ==
    /\ Caso1Devuelto
    /\ "Gripe" \in DOMAIN diag.valor
    /\ evidencias = Caso1Sintomas

\* C2: whenever a query of the pgmpy engine returns, for whatever target and whatever
\* evidence (the empty one included, where it is the prior marginal), the distribution
\* stored for its target is exactly the conditional distribution obtained by enumeration
\* of the full joint
C2_EliminacionIgualEnumeracion ==
    (script = "pgmpy" /\ pc = "bucle" /\ indice > 1) =>
        /\ DOMAIN diagnostico = {enfermedades[i] : i \in 1..(indice - 1)}
        /\ diagnostico[enfermedades[indice - 1]] =
               PosteriorPorEnumeracion(modelo.cpds, enfermedades[indice - 1], evidencias)

C2_Witness ==
    /\ script = "pgmpy"
    /\ evidencias = [PG |-> "Baja", Fiebre |-> "Sí"]
    /\ DOMAIN diagnostico = {"Gripe", "Neumonia", "Tos", "Dolor_cabeza"}
    /\ diagnostico["Gripe"].den > 1

\* the query that has just returned, and the variables it summed out
ConsultaTerminada == script = "pgmpy" /\ pc = "bucle" /\ indice > 1

\* C3: the result of a query does not depend on the elimination order: whatever order
\* the engine took, the distribution is the one of the declaration order, and at every
\* point of an elimination, finishing in declaration order gives that same distribution
C3_OrdenIndiferente ==
    /\ ConsultaTerminada =>
           diagnostico[enfermedades[indice - 1]] =
               QueryEnOrden(modelo.cpds, enfermedades[indice - 1], evidencias,
                            Filtrar(Nodos, Rango(orden)))
    /\ (script = "pgmpy" /\ pc = "eliminando") =>
           Finalizar(EliminarEnOrden(trabajo, Filtrar(Nodos, porEliminar)),
                     enfermedades[indice]) =
               QueryEnOrden(modelo.cpds, enfermedades[indice], evidencias,
                            Filtrar(Nodos, Rango(orden) \cup porEliminar))

C3_Witness ==
    /\ ConsultaTerminada
    /\ evidencias = <<>>
    /\ enfermedades[indice - 1] = "Gripe"
    /\ orden = <<"Dolor_cabeza", "Tos", "Fiebre", "Neumonia", "PG">>

\* diagnosticar_pgmpy has returned to its caller
RetornadoPgmpy == script = "pgmpy" /\ diag.tipo # "pendiente"

\* the variable each query issued so far asked for, in the order of the calls
Objetivos == [i \in DOMAIN consultas |-> CHOOSE v \in consultas[i].variables : TRUE]

\* every query so far has one target, a variable of the network that is no evidence key
\* and was not queried before, and carries the evidence dictionary of the diagnosis
ConsultasBienFormadas ==
    /\ \A i \in DOMAIN consultas :
           /\ Cardinality(consultas[i].variables) = 1
           /\ consultas[i].variables \subseteq NodosSet
           /\ consultas[i].variables \cap DOMAIN evidencias = {}
           /\ consultas[i].evidence = evidencias
    /\ \A i, j \in DOMAIN consultas : i # j => Objetivos[i] # Objetivos[j]

\* the variables queried are exactly the six less the evidence keys, each queried once
ConsultasCompletas ==
    /\ Rango(Objetivos) = NodosSet \ DOMAIN evidencias
    /\ Len(consultas) = Cardinality(NodosSet \ DOMAIN evidencias)

\* C4 as stated: for every symptom dictionary, when diagnosticar_pgmpy is done the
\* variables it queried are exactly the six less the evidence keys, every query had that
\* same evidence, no target is an evidence key and every non-evidence variable was
\* queried exactly once
C4_ConsultaCadaNoEvidenciaUnaVez ==
    RetornadoPgmpy => (ConsultasBienFormadas /\ ConsultasCompletas)

\* C4 amended: for every symptom dictionary the evidence is the dictionary cut to the
\* six variables, every query has that same evidence and one target, which is no
\* evidence key and was not queried before; when diagnosticar_pgmpy returns a dictionary
\* the variables queried, and the keys of the dictionary, are exactly the six less the
\* evidence keys, each queried once; when a query raises (an evidence label that is no
\* state of its variable, or a failure of the library) the loop stops at that query:
\* the variables after it are never queried and None is returned
C4_ConsultasSegunEvidencia ==
    script = "pgmpy" =>
        /\ ConsultasBienFormadas
        /\ \A i \in DOMAIN consultas : i <= Len(enfermedades) /\ Objetivos[i] = enfermedades[i]
        /\ pc \in {"bucle", "eliminando"} \/ diag.tipo # "pendiente" =>
               evidencias = Restringir(sintomas, (DOMAIN sintomas) \cap NodosSet)
        /\ diag.tipo = "dict" =>
               /\ ConsultasCompletas
               /\ DOMAIN diag.valor = NodosSet \ DOMAIN evidencias
        /\ diag.tipo = "None" => Len(consultas) >= 1

C4_Witness ==
    /\ RetornadoPgmpy
    /\ diag.tipo = "dict"
    /\ DOMAIN sintomas = {"Gripe", "Tos", "Edad"}
    /\ Objetivos = <<"PG", "Neumonia", "Fiebre", "Dolor_cabeza">>

\* C5: every conditional probability table declared in crear_red_pgmpy and in
\* crear_red_bayesiana is locally normalized: for every assignment of the parents the
\* weights over the child's states sum to 1, and the prior of PG sums to 1
C5_TablasNormalizadas ==
    /\ (script = "pgmpy" /\ pc # "inicio") =>
           \A i \in DOMAIN modelo.cpds : CpdNormalizada(modelo.cpds[i])
    /\ (script = "pomegranate" /\ pc # "inicio") =>
           \A i \in DOMAIN modelo.cpds : TablaNormalizada(modelo.cpds[i])

C5_Witness ==
    /\ script = "pomegranate" /\ pc = "caso1"
    /\ Len(modelo.cpds) = 6
    /\ modelo.cpds[5].variable = "Tos"

\* C6: in the pgmpy script no query is issued, and no diagnosis is started, on a model
\* whose validation has not succeeded; a model that fails validation is not returned
\* and is never queried
C6_ValidadaAntesDeConsultar ==
    script = "pgmpy" =>
        /\ (consultas # <<>> \/ pc \in {"diagnosticar", "bucle", "eliminando"}) =>
               modelo.validado
        /\ error = "ValueError" => (modelo = SinModelo /\ consultas = <<>> /\ pc = "crash")

C6_Witness ==
    /\ script = "pgmpy" /\ modo = "main"
    /\ pc = "eliminando"
    /\ Len(consultas) = 2
    /\ modelo.validado

\* C7: a diagnosis request whose symptom dictionary names a variable that is no variable
\* of the network is rejected: no inference is computed for it and no diagnosis is
\* returned from the remaining evidence
C7_ClaveDesconocidaRechazada ==
    (script \in {"pgmpy", "pomegranate"} /\ ~((DOMAIN sintomas) \subseteq NodosSet)) =>
        /\ pc \notin {"bucle", "eliminando"}
        /\ diag.tipo # "dict"

\* C8: when a diagnosis fails (the function returned None) the caller does not end in
\* the exception of handing None to the printing routine
C8_FalloNoRompeAlMostrar ==
    diag.tipo = "None" => error # "AttributeError"

\* C9: in the PyMC script the variables observed in the model built by
\* crear_modelo_bayesiano are exactly the evidence keys diagnosticar accepted
C9_ObservadosSonLosAceptados ==
    (script = "pymc" /\ diag.tipo # "pendiente") =>
        DOMAIN modelo.observados = DOMAIN evidencias

\* C10: in the interactive mode of the pgmpy script every variable of the returned
\* diagnosis has its labels in estados_posibles, and showing it ends in no KeyError
C10_EtiquetasParaTodoElDiagnostico ==
    (script = "pgmpy" /\ caso = 3 /\ diag.tipo = "dict") =>
        /\ (DOMAIN diag.valor) \subseteq DOMAIN estados_posibles
        /\ error # "KeyError"

\* the weight of the evidence ev under the network: the joint summed over every variable
\* the evidence leaves free (the probability of ev, in units of 10^-6)
PesoEvidencia(cpds, ev) ==
    SumaConjunta(cpds, Filtrar(Nodos, NodosSet \ DOMAIN ev), ev)

\* C11: for every assignment of valid states to any subset of the six variables the
\* evidence has strictly positive probability under the network of crear_red_pgmpy, and
\* the final normalization of a query never has a zero sum: the degenerate-evidence
\* failure is unreachable for this model
C11_EvidenciaNuncaDegenerada ==
    script = "pgmpy" =>
        /\ (pc = "bucle" /\ EvidenciaValida(evidencias)) =>
               PesoEvidencia(modelo.cpds, evidencias) > 0
        /\ (pc = "eliminando" /\ porEliminar = {}) =>
               Finalizar(trabajo, enfermedades[indice]).den > 0

C11_Witness ==
    /\ script = "pgmpy" /\ pc = "eliminando" /\ porEliminar = {}
    /\ evidencias = [Gripe |-> "Sí", Neumonia |-> "Sí", Fiebre |-> "No",
                     Tos |-> "No", Dolor_cabeza |-> "No"]
    /\ enfermedades[indice] = "PG"
    /\ PesoEvidencia(modelo.cpds, evidencias) = 1344

\* C12: the three scripts encode one and the same network: whichever script built the
\* model, its edges are the six edges of crear_red_pgmpy, every conditional probability
\* is the one of crear_red_pgmpy, and the query of case 1 has the same exact posterior
C12_MismaRedEnLosTresScripts ==
    Len(modelo.cpds) > 0 =>
        /\ modelo.aristas = Aristas
        /\ AristasDe(RedDe(modelo)) = Aristas
        /\ RedDe(modelo) = CpdsPgmpy
        /\ PosteriorPorEnumeracion(RedDe(modelo), "Gripe", Caso1Sintomas)
               = PosteriorPorEnumeracion(CpdsPgmpy, "Gripe", Caso1Sintomas)

====
